---- MODULE Spec2Model ----
(***************************************************************************)
(* The shape-to-model compiler of plugins/aws/tools/model_gen.py:          *)
(* clazz_model (the recursive traversal with the shared visited set),      *)
(* all_models (the loop over the configured endpoints) and the part of     *)
(* AwsModel.to_class / AwsProperty.mapping that builds the mapping.        *)
(*                                                                         *)
(* The recursion of clazz_model is an explicit stack of frames; one action *)
(* is one step of the function: the visited check, one member of the       *)
(* shape, the final append and return.                                     *)
(***************************************************************************)
EXTENDS Naturals, Sequences, FiniteSets, TLC

\* ------------------------------------------------------------------ bounds
\* Number of extra members (beyond the base members) the root shape Widget has.
MaxExtra == 2
\* Number of endpoints in the models table of one run.
MaxRoots == 2
\* Cap on the depth of the clazz_model recursion.
MaxDepth == 6

\* Python's None; f"{None}" prints as the text None.
None == "<None>"

Fmt(x) == IF x = None THEN "None" ELSE x

\* `x or ""`
OrEmpty(x) == IF x = None THEN "" ELSE x

\* ------------------------------------------------------- characters, to_snake
Upper == {"A","B","C","D","E","F","G","H","I","J","K","L","M",
          "N","O","P","Q","R","S","T","U","V","W","X","Y","Z"}

Lower == {"a","b","c","d","e","f","g","h","i","j","k","l","m",
          "n","o","p","q","r","s","t","u","v","w","x","y","z"}

Digit == {"0","1","2","3","4","5","6","7","8","9"}

ToLower ==
  [c \in Upper |->
     CASE c = "A" -> "a" [] c = "B" -> "b" [] c = "C" -> "c" [] c = "D" -> "d"
       [] c = "E" -> "e" [] c = "F" -> "f" [] c = "G" -> "g" [] c = "H" -> "h"
       [] c = "I" -> "i" [] c = "J" -> "j" [] c = "K" -> "k" [] c = "L" -> "l"
       [] c = "M" -> "m" [] c = "N" -> "n" [] c = "O" -> "o" [] c = "P" -> "p"
       [] c = "Q" -> "q" [] c = "R" -> "r" [] c = "S" -> "s" [] c = "T" -> "t"
       [] c = "U" -> "u" [] c = "V" -> "v" [] c = "W" -> "w" [] c = "X" -> "x"
       [] c = "Y" -> "y" [] c = "Z" -> "z"]

\* The characters of the member names the schema uses.
Chars(name) ==
  CASE name = "Id" -> <<"I","d">>
    [] name = "Size" -> <<"S","i","z","e">>
    [] name = "Owner" -> <<"O","w","n","e","r">>
    [] name = "Name" -> <<"N","a","m","e">>
    [] name = "Tags" -> <<"T","a","g","s">>
    [] name = "Names" -> <<"N","a","m","e","s">>
    [] name = "Labels" -> <<"L","a","b","e","l","s">>
    [] name = "Widgets" -> <<"W","i","d","g","e","t","s">>
    [] name = "Key" -> <<"K","e","y">>
    [] name = "Value" -> <<"V","a","l","u","e">>
    [] name = "Part" -> <<"P","a","r","t">>
    [] name = "Parts" -> <<"P","a","r","t","s">>
    [] name = "Parent" -> <<"P","a","r","e","n","t">>
    [] name = "Owners" -> <<"O","w","n","e","r","s">>
    [] name = "PartsByName" -> <<"P","a","r","t","s","B","y","N","a","m","e">>
    [] name = "OwnerIndex" -> <<"O","w","n","e","r","I","n","d","e","x">>
    [] name = "Data" -> <<"D","a","t","a">>
    [] name = "Chunks" -> <<"C","h","u","n","k","s">>
    [] name = "Grid" -> <<"G","r","i","d">>
    [] name = "BlobsByID" -> <<"B","l","o","b","s","B","y","I","D">>
    [] name = "Bad" -> <<"B","a","d">>
    [] name = "Spec" -> <<"S","p","e","c">>

RECURSIVE Join(_)
Join(cs) == IF cs = <<>> THEN "" ELSE Head(cs) \o Join(Tail(cs))

\* The end of the run of lower-case letters that starts at position j.
RECURSIVE LowerRunEnd(_, _)
LowerRunEnd(cs, j) ==
  IF j + 1 <= Len(cs) /\ cs[j + 1] \in Lower THEN LowerRunEnd(cs, j + 1) ELSE j

\* re.sub("(.)([A-Z][a-z]+)", r"\1_\2", name), scanning from position i.
RECURSIVE SnakePass1(_, _)
SnakePass1(cs, i) ==
  IF i > Len(cs) THEN <<>>
  ELSE IF i + 2 <= Len(cs) /\ cs[i + 1] \in Upper /\ cs[i + 2] \in Lower
       THEN LET j == LowerRunEnd(cs, i + 2)
            IN  <<cs[i], "_">> \o SubSeq(cs, i + 1, j) \o SnakePass1(cs, j + 1)
       ELSE <<cs[i]>> \o SnakePass1(cs, i + 1)

\* re.sub("__([A-Z])", r"_\1", name), scanning from position i.
RECURSIVE SnakePass2(_, _)
SnakePass2(cs, i) ==
  IF i > Len(cs) THEN <<>>
  ELSE IF i + 2 <= Len(cs) /\ cs[i] = "_" /\ cs[i + 1] = "_" /\ cs[i + 2] \in Upper
       THEN <<"_", cs[i + 2]>> \o SnakePass2(cs, i + 3)
       ELSE <<cs[i]>> \o SnakePass2(cs, i + 1)

\* re.sub("([a-z0-9])([A-Z])", r"\1_\2", name), scanning from position i.
RECURSIVE SnakePass3(_, _)
SnakePass3(cs, i) ==
  IF i > Len(cs) THEN <<>>
  ELSE IF i + 1 <= Len(cs) /\ cs[i] \in (Lower \cup Digit) /\ cs[i + 1] \in Upper
       THEN <<cs[i], "_", cs[i + 1]>> \o SnakePass3(cs, i + 2)
       ELSE <<cs[i]>> \o SnakePass3(cs, i + 1)

LowerCase(cs) == [k \in 1..Len(cs) |-> IF cs[k] \in Upper THEN ToLower[cs[k]] ELSE cs[k]]

to_snake(name) ==
  Join(LowerCase(SnakePass3(SnakePass2(SnakePass1(Chars(name), 1), 1), 1)))

\* ------------------------------------------------------------ the type table
simple_type_map ==
  [k \in {"Long", "Float", "Double", "Integer", "Boolean", "String", "DateTime",
          "Timestamp", "TagsMap", "MillisecondDateTime",
          "long", "float", "double", "integer", "boolean", "string", "datetime",
          "timestamp", "tagsmap", "milliseconddatetime"} |->
     CASE k \in {"Long", "long", "Integer", "integer"} -> "int"
       [] k \in {"Float", "float", "Double", "double"} -> "float"
       [] k \in {"Boolean", "boolean"} -> "bool"
       [] k \in {"String", "string"} -> "str"
       [] k \in {"TagsMap", "tagsmap"} -> "Dict[str, str]"
       [] OTHER -> "datetime"]

ignore_props == {"Tags", "tags"}

\* ----------------------------------------------------------------- the schema
\* The shapes of the service model, by name.  Widget is the record whose
\* member list varies from run to run; every other shape is fixed.
StructureShapes == {"Widget", "Part", "Spec", "Owner", "Tag"}

ListShapes == {"WidgetList", "PartList", "OwnerList", "StringList", "TagList",
               "BlobList", "Matrix"}

MapShapes == {"PartMap", "OwnerMap", "LabelMap", "BlobMap", "PartKeyMap"}

ShapeNames == StructureShapes \cup ListShapes \cup MapShapes
              \cup {"String", "WidgetSize", "Blob"}

\* The botocore class of a shape (what isinstance tests).
Cls(s) ==
  CASE s \in StructureShapes -> "StructureShape"
    [] s \in ListShapes -> "ListShape"
    [] s \in MapShapes -> "MapShape"
    [] s = "String" -> "StringShape"
    [] OTHER -> "Shape"

\* shape.type_name
ShapeTypeName(s) ==
  CASE s \in StructureShapes -> "structure"
    [] s \in ListShapes -> "list"
    [] s \in MapShapes -> "map"
    [] s = "String" -> "string"
    [] s = "WidgetSize" -> "integer"
    [] OTHER -> "blob"

\* ListShape.member
ListMember(s) ==
  CASE s = "WidgetList" -> "Widget"
    [] s = "PartList" -> "Part"
    [] s = "OwnerList" -> "Owner"
    [] s = "StringList" -> "String"
    [] s = "TagList" -> "Tag"
    [] s = "BlobList" -> "Blob"
    [] s = "Matrix" -> "PartList"

\* MapShape.key
MapKey(s) == IF s = "PartKeyMap" THEN "Part" ELSE "String"

\* MapShape.value
MapValue(s) ==
  CASE s = "PartMap" -> "Part"
    [] s = "OwnerMap" -> "Owner"
    [] s = "LabelMap" -> "String"
    [] s = "BlobMap" -> "Blob"
    [] s = "PartKeyMap" -> "String"

Member(n, s) == [name |-> n, shape |-> s]

\* The members Widget has in the end-to-end scenario.
BaseMembers ==
  <<Member("Id", "String"), Member("Size", "WidgetSize"), Member("Owner", "Owner")>>

\* The further members Widget may have, in the order they are declared in.
ExtraPool ==
  <<Member("Part", "Part"), Member("Parts", "PartList"), Member("Parent", "Widget"),
    Member("Spec", "Spec"), Member("PartsByName", "PartMap"),
    Member("OwnerIndex", "OwnerMap"), Member("Data", "Blob"),
    Member("Chunks", "BlobList"), Member("Grid", "Matrix"),
    Member("BlobsByID", "BlobMap"), Member("Bad", "PartKeyMap")>>

\* The members of ExtraPool at the positions of E, in declaration order.
RECURSIVE PickExtra(_, _)
PickExtra(E, k) ==
  IF k > Len(ExtraPool) THEN <<>>
  ELSE (IF k \in E THEN <<ExtraPool[k]>> ELSE <<>>) \o PickExtra(E, k + 1)

WidgetMemberLists ==
  {base \o PickExtra(E, 1) :
     base \in {<<>>, BaseMembers},
     E \in {X \in SUBSET (1..Len(ExtraPool)) : Cardinality(X) <= MaxExtra}}

\* ------------------------------------------------------------- configuration
\* AwsResotoModel, with the service (the key of the models table) it is listed under.
AwsResotoModel(act, prop, shp, pre, ppre, nm, bs) ==
  [service |-> "demo", api_action |-> act, result_property |-> prop,
   result_shape |-> shp, prefix |-> pre, prop_prefix |-> ppre, name |-> nm, base |-> bs]

\* The endpoints a models table is made of.
Endpoints ==
  {AwsResotoModel("list-widgets", "Widgets", "Widget", "Demo", None, None, None),
   AwsResotoModel("list-widgets", "Widgets", "Widget", None, None, None, None),
   AwsResotoModel("list-parts", "Parts", "Part", "Demo", None, None, None),
   AwsResotoModel("list-parts", "Parts", "Part", None, None, None, None),
   AwsResotoModel("describe-widgets", "Widgets", "Widget", "Demo", "widget_",
                  "AwsCustom", "BaseThing"),
   AwsResotoModel("list-owners", "Owners", "Owner", "Demo", None, None, None)}

\* api_info = None
NoApi == <<>>

\* ---------------------------------------------------------------------- state
VARIABLES
  members,   \* the schema: the ordered members of the shape Widget
  visited,   \* all_models: the visited set shared by every call of the run
  result,    \* all_models: the result list
  taken,     \* history: the endpoints all_models has taken from the table, in order
  stack,     \* the calls of clazz_model in progress, the innermost last
  pc,        \* "loop": in all_models between two endpoints; "call": inside
             \* clazz_model; "done": all_models returned; "aborted": it raised
  err,       \* the exception that ended the run
  passes     \* history: the type names that passed the visited check, in order

vars == <<members, visited, result, taken, stack, pc, err, passes>>

\* shape.members
Members(s) ==
  CASE s = "Widget" -> members
    [] s = "Part" -> <<Member("Id", "String"), Member("Tags", "TagList"),
                       Member("Names", "StringList"), Member("Labels", "LabelMap"),
                       Member("Widgets", "WidgetList")>>
    [] s = "Spec" -> <<Member("Id", "String"), Member("Owners", "OwnerList")>>
    [] s = "Owner" -> <<Member("Name", "String")>>
    [] s = "Tag" -> <<Member("Key", "String"), Member("Value", "String")>>

\* ------------------------------------------------- clazz_model's local functions
simple_shape(s) ==
  IF Cls(s) = "StringShape" THEN "str"
  ELSE IF s \in DOMAIN simple_type_map THEN simple_type_map[s]
  ELSE IF ShapeTypeName(s) \in DOMAIN simple_type_map
       THEN simple_type_map[ShapeTypeName(s)]
  ELSE None

\* type_name without the Aws in front of the prefix.
Mut_type_name(prefix, s) ==
  IF simple_shape(s) # None THEN simple_shape(s) ELSE Fmt(prefix) \o s

\* type_name reads the enclosing call's prefix variable as it is at that moment.
type_name(prefix, s) ==
  IF simple_shape(s) # None THEN simple_shape(s) ELSE "Aws" \o Fmt(prefix) \o s

\* None, or the pair <<member name, scalar type>>.
complex_simple_shape(s) ==
  IF Cls(s) = "StructureShape" /\ Len(Members(s)) = 1
  THEN LET p == Members(s)[1]
       IN  IF simple_shape(p.shape) # None THEN <<p.name, simple_shape(p.shape)>> ELSE None
  ELSE None

AwsProperty(name, from_name, type, is_array, is_complex, extractor) ==
  [name |-> name, from_name |-> from_name, type |-> type, is_array |-> is_array,
   is_complex |-> is_complex, extractor |-> extractor]

\* shape, entry and via are history: the shape the model was compiled from, the
\* type name its call put into visited, and the place the call was made from
\* ("root": all_models; "list", "map", "struct": the branch of the caller's loop).
AwsModel(name, props, aggregate_root, base_class, api_info, shape, entry, via) ==
  [name |-> name, props |-> props, aggregate_root |-> aggregate_root,
   base_class |-> base_class, api_info |-> api_info, shape |-> shape, entry |-> entry,
   via |-> via]

DictType(key_type, value_type) == "Dict[" \o key_type \o ", " \o value_type \o "]"

ForallExtractor(name, prop_name) ==
  "S(\"" \o name \o "\", default=[]) >> ForallBend(S(\"" \o prop_name \o "\"))"

\* ------------------------------------------------------------------- frames
\* One call of clazz_model: its parameters and its local variables.  pc is
\* "enter" before the visited check and "members" inside the loop over
\* shape.members; i is the position of the loop.
Frame(shape, prefix, prop_prefix, clazz_name, base_class, aggregate_root, api_info, via) ==
  [shape |-> shape, prefix |-> prefix, prop_prefix |-> prop_prefix,
   clazz_name |-> clazz_name, base_class |-> base_class,
   aggregate_root |-> aggregate_root, api_info |-> api_info,
   pc |-> "enter", i |-> 1, props |-> <<>>, result |-> <<>>, entry |-> None,
   via |-> via]

\* The recursive call clazz_model(model, inner, visited, prefix).
NestedFrame(inner, prefix, via) ==
  Frame(inner, prefix, None, None, None, FALSE, NoApi, via)

Top == stack[Len(stack)]

Callers == SubSeq(stack, 1, Len(stack) - 1)

CurMember(f) == Members(f.shape)[f.i]

InLoop ==
  /\ pc = "call"
  /\ Top.pc = "members"
  /\ Top.i <= Len(Members(Top.shape))

\* The member the innermost call is at is not skipped and is not a scalar.
AtComplexMember ==
  /\ InLoop
  /\ to_snake(CurMember(Top).name) \notin ignore_props
  /\ simple_shape(CurMember(Top).shape) = None

SetTop(f) == stack' = [stack EXCEPT ![Len(stack)] = f]

\* props.append(p) and on to the next member.
AppendProp(p) == SetTop([Top EXCEPT !.props = Append(@, p), !.i = @ + 1])

Call(f) == stack' = Append(stack, f)

\* NestedProp without is_array=True for the elements of a list.
Mut_NestedProp(f) ==
  LET m == CurMember(f)
      pname == f.prop_prefix \o to_snake(m.name)
  IN  CASE Cls(m.shape) = "ListShape" ->
             AwsProperty(pname, <<m.name>>, type_name(f.prefix, ListMember(m.shape)),
                         FALSE, TRUE, None)
        [] Cls(m.shape) = "MapShape" ->
             AwsProperty(pname, <<m.name>>,
                         DictType(simple_shape(MapKey(m.shape)),
                                  type_name(f.prefix, MapValue(m.shape))),
                         FALSE, FALSE, None)
        [] OTHER ->
             AwsProperty(pname, <<m.name>>, type_name(f.prefix, m.shape),
                         FALSE, TRUE, None)

\* The property a call appends once the recursive call for its current member
\* has returned.
NestedProp(f) ==
  LET m == CurMember(f)
      pname == f.prop_prefix \o to_snake(m.name)
  IN  CASE Cls(m.shape) = "ListShape" ->
             AwsProperty(pname, <<m.name>>, type_name(f.prefix, ListMember(m.shape)),
                         TRUE, TRUE, None)
        [] Cls(m.shape) = "MapShape" ->
             AwsProperty(pname, <<m.name>>,
                         DictType(simple_shape(MapKey(m.shape)),
                                  type_name(f.prefix, MapValue(m.shape))),
                         FALSE, FALSE, None)
        [] OTHER ->
             AwsProperty(pname, <<m.name>>, type_name(f.prefix, m.shape),
                         FALSE, TRUE, None)

\* The innermost call returns ret: its caller extends its result with ret and
\* appends the property of the member it recursed for; all_models extends the
\* run's result.
Return(ret) ==
  IF Callers = <<>>
  THEN /\ stack' = <<>>
       /\ result' = result \o ret
       /\ pc' = "loop"
  ELSE LET c == Callers[Len(Callers)]
       IN  /\ stack' = [Callers EXCEPT ![Len(Callers)] =
                          [c EXCEPT !.result = @ \o ret,
                                    !.props = Append(@, NestedProp(c)),
                                    !.i = @ + 1]]
           /\ UNCHANGED <<result, pc>>

\* An exception leaves every call in progress and all_models.
Raise(e) ==
  /\ stack' = <<>>
  /\ pc' = "aborted"
  /\ err' = e
  /\ UNCHANGED <<members, visited, result, taken, passes>>

\* ---------------------------------------------------------------------- Init
Init ==
  /\ members \in WidgetMemberLists
  /\ visited = {}
  /\ result = <<>>
  /\ taken = <<>>
  /\ stack = <<>>
  /\ pc = "loop"
  /\ err = None
  /\ passes = <<>>

\* ------------------------------------------------------------------- actions
\* all_models: the next endpoint of the table; the call of clazz_model for it.
NextEndpoint ==
  /\ pc = "loop"
  /\ Len(taken) < MaxRoots
  /\ \E ep \in Endpoints :
       /\ stack' = <<Frame(ep.result_shape, ep.prefix, ep.prop_prefix, ep.name, ep.base,
                           TRUE, <<ep.service, ep.api_action, ep.result_property>>,
                           "root")>>
       /\ taken' = Append(taken, ep)
  /\ pc' = "call"
  /\ UNCHANGED <<members, visited, result, err, passes>>

\* all_models: the table is exhausted; return result.
Finish ==
  /\ pc = "loop"
  /\ pc' = "done"
  /\ UNCHANGED <<members, visited, result, taken, stack, err, passes>>

\* clazz_model: type_name(shape) is in visited; return [].
EnterVisited ==
  /\ pc = "call"
  /\ Top.pc = "enter"
  /\ type_name(Top.prefix, Top.shape) \in visited
  /\ Return(<<>>)
  /\ UNCHANGED <<members, visited, taken, err, passes>>

\* The shapes clazz_model loops over the members of.
IsRecord(s) == Cls(s) = "StructureShape"

\* Visit without visited.add.
Mut_Visit(n) == visited

\* The visited set after a call for type name n passed the check.
Visit(n) == visited \cup {n}

\* clazz_model: type_name(shape) is new; it is added to visited, the prefixes
\* default to "", and a shape that is no structure returns the empty result.
EnterNew ==
  /\ pc = "call"
  /\ Top.pc = "enter"
  /\ LET n == type_name(Top.prefix, Top.shape)
     IN  /\ n \notin visited
         /\ visited' = Visit(n)
         /\ passes' = Append(passes, n)
         /\ IF IsRecord(Top.shape)
            THEN /\ SetTop([Top EXCEPT !.pc = "members", !.entry = n,
                                       !.prefix = OrEmpty(@),
                                       !.prop_prefix = OrEmpty(@)])
                 /\ UNCHANGED <<result, pc>>
            ELSE Return(<<>>)
  /\ UNCHANGED <<members, taken, err>>

\* A member whose snake-case name is in ignore_props is skipped.
MemberIgnored ==
  /\ InLoop
  /\ to_snake(CurMember(Top).name) \in ignore_props
  /\ SetTop([Top EXCEPT !.i = @ + 1])
  /\ UNCHANGED <<members, visited, result, taken, pc, err, passes>>

\* A member of simple type.
MemberSimple ==
  /\ InLoop
  /\ to_snake(CurMember(Top).name) \notin ignore_props
  /\ LET m == CurMember(Top)
     IN  /\ simple_shape(m.shape) # None
         /\ AppendProp(AwsProperty(Top.prop_prefix \o to_snake(m.name), <<m.name>>,
                                   simple_shape(m.shape), FALSE, FALSE, None))
  /\ UNCHANGED <<members, visited, result, taken, pc, err, passes>>

\* A list whose elements are of simple type.
MemberListSimple ==
  /\ AtComplexMember
  /\ LET m == CurMember(Top)
     IN  /\ Cls(m.shape) = "ListShape"
         /\ simple_shape(ListMember(m.shape)) # None
         /\ AppendProp(AwsProperty(Top.prop_prefix \o to_snake(m.name), <<m.name>>,
                                   simple_shape(ListMember(m.shape)), TRUE, FALSE, None))
  /\ UNCHANGED <<members, visited, result, taken, pc, err, passes>>

\* CollapsedProp with the name of the outer member alone as the source.
Mut_CollapsedProp(f, m, sp, is_array) ==
  AwsProperty(f.prop_prefix \o to_snake(m.name), <<m.name>>, sp[2], is_array,
              FALSE, IF is_array THEN ForallExtractor(m.name, sp[1]) ELSE None)

\* The property of a member whose structure (or whose elements' structure) has
\* the single member sp[1] of simple type sp[2].
CollapsedProp(f, m, sp, is_array) ==
  AwsProperty(f.prop_prefix \o to_snake(m.name), <<m.name, sp[1]>>, sp[2], is_array,
              FALSE, IF is_array THEN ForallExtractor(m.name, sp[1]) ELSE None)

\* A list whose elements are structures with a single member of simple type.
MemberListCollapsed ==
  /\ AtComplexMember
  /\ LET m == CurMember(Top)
     IN  /\ Cls(m.shape) = "ListShape"
         /\ simple_shape(ListMember(m.shape)) = None
         /\ complex_simple_shape(ListMember(m.shape)) # None
         /\ LET sp == complex_simple_shape(ListMember(m.shape))
            IN  AppendProp(CollapsedProp(Top, m, sp, TRUE))
  /\ UNCHANGED <<members, visited, result, taken, pc, err, passes>>

\* Any other list: the recursive call for its element shape.
MemberListNested ==
  /\ AtComplexMember
  /\ Len(stack) < MaxDepth
  /\ LET m == CurMember(Top)
     IN  /\ Cls(m.shape) = "ListShape"
         /\ simple_shape(ListMember(m.shape)) = None
         /\ complex_simple_shape(ListMember(m.shape)) = None
         /\ Call(NestedFrame(ListMember(m.shape), Top.prefix, "list"))
  /\ UNCHANGED <<members, visited, result, taken, pc, err, passes>>

\* A map with a key of simple type: the recursive call for its value shape.
MemberMap ==
  /\ AtComplexMember
  /\ Len(stack) < MaxDepth
  /\ LET m == CurMember(Top)
     IN  /\ Cls(m.shape) = "MapShape"
         /\ simple_shape(MapKey(m.shape)) # None
         /\ Call(NestedFrame(MapValue(m.shape), Top.prefix, "map"))
  /\ UNCHANGED <<members, visited, result, taken, pc, err, passes>>

\* A map whose key is not of simple type: the assertion fails.
MemberMapBadKey ==
  /\ AtComplexMember
  /\ Cls(CurMember(Top).shape) = "MapShape"
  /\ simple_shape(MapKey(CurMember(Top).shape)) = None
  /\ Raise("AssertionError")

\* A structure with a single member of simple type.
MemberStructCollapsed ==
  /\ AtComplexMember
  /\ LET m == CurMember(Top)
     IN  /\ Cls(m.shape) = "StructureShape"
         /\ complex_simple_shape(m.shape) # None
         /\ LET sp == complex_simple_shape(m.shape)
            IN  AppendProp(CollapsedProp(Top, m, sp, FALSE))
  /\ UNCHANGED <<members, visited, result, taken, pc, err, passes>>

\* Any other structure: the recursive call for it.
MemberStructNested ==
  /\ AtComplexMember
  /\ Len(stack) < MaxDepth
  /\ LET m == CurMember(Top)
     IN  /\ Cls(m.shape) = "StructureShape"
         /\ complex_simple_shape(m.shape) = None
         /\ Call(NestedFrame(m.shape, Top.prefix, "struct"))
  /\ UNCHANGED <<members, visited, result, taken, pc, err, passes>>

\* The member shapes the loop has a branch for; anything else raises.
HasBranch(s) == Cls(s) \in {"ListShape", "MapShape", "StructureShape"}

\* A member that is neither simple nor a list, a map or a structure.
MemberUnsupported ==
  /\ AtComplexMember
  /\ ~HasBranch(CurMember(Top).shape)
  /\ Raise("NotImplementedError")

\* The name the model of a call gets.
ModelName(f) == IF f.clazz_name # None THEN f.clazz_name ELSE type_name(f.prefix, f.shape)

\* WithModel with the model put in front.
Mut_WithModel(res, model) == <<model>> \o res

\* result.append(model)
WithModel(res, model) == Append(res, model)

\* After the last member: the model of the shape is appended and result returned.
EmitModel ==
  /\ pc = "call"
  /\ Top.pc = "members"
  /\ Top.i > Len(Members(Top.shape))
  /\ Return(WithModel(Top.result,
                      AwsModel(ModelName(Top), Top.props, Top.aggregate_root,
                               Top.base_class, Top.api_info, Top.shape, Top.entry,
                               Top.via)))
  /\ UNCHANGED <<members, visited, taken, err, passes>>

Next ==
  \/ NextEndpoint
  \/ Finish
  \/ EnterVisited
  \/ EnterNew
  \/ MemberIgnored
  \/ MemberSimple
  \/ MemberListSimple
  \/ MemberListCollapsed
  \/ MemberListNested
  \/ MemberMap
  \/ MemberMapBadKey
  \/ MemberStructCollapsed
  \/ MemberStructNested
  \/ MemberUnsupported
  \/ EmitModel

Spec == Init /\ [][Next]_vars

\* ---------------------------------------------------------- the output, read
Range(seq) == {seq[k] : k \in DOMAIN seq}

\* all_models has returned its result.
Returned == pc = "done"

\* The names of the models of the returned collection.
ModelNames == {result[k].name : k \in DOMAIN result}

\* The scalar type names simple_shape can return.
ScalarNames == {simple_type_map[k] : k \in DOMAIN simple_type_map}

\* The member of the model's shape a property was made from.
MemberOf(m, p) == CHOOSE x \in Range(Members(m.shape)) : x.name = p.from_name[1]

IsMapField(m, p) == Cls(MemberOf(m, p).shape) = "MapShape"

\* The shape a member refers to: the element of a list, the value of a map,
\* the member's own shape otherwise.
TargetShape(s) ==
  CASE Cls(s) = "ListShape" -> ListMember(s)
    [] Cls(s) = "MapShape" -> MapValue(s)
    [] OTHER -> s

\* ------------------------------------------------------------------ C1
\* C1: in the collection all_models returns, every field that refers to a
\* generated model (is_complex fields, and the value type of map-typed fields)
\* names a model that is in the collection.
C1_NoDanglingReference ==
  Returned =>
    \A i \in DOMAIN result : \A k \in DOMAIN result[i].props :
      LET p == result[i].props[k]
      IN  /\ p.is_complex => p.type \in ModelNames
          /\ IsMapField(result[i], p) =>
               \E key \in ScalarNames, v \in ScalarNames \cup ModelNames :
                 p.type = DictType(key, v)

\* ------------------------------------------------------------------ C2
\* C2: in the collection all_models returns, no two models have the same name.
C2_UniqueModelNames ==
  Returned =>
    \A i, j \in DOMAIN result : i # j => result[i].name # result[j].name

\* The positions of the returned collection that hold a model compiled from S.
ModelsOf(S) == {k \in DOMAIN result : result[k].shape = S}

\* The properties of model m that came out of a recursive call for shape S.
RefsTo(m, S) ==
  {p \in Range(m.props) : p.is_complex /\ TargetShape(MemberOf(m, p).shape) = S}

\* ------------------------------------------------------------------ C3
\* C3: every record shape is compiled at most once in a run, so the
\* returned collection holds at most one model per shape and every field that
\* refers to the shape carries that model's name.
C3_ShapeCompiledOnce ==
  Returned =>
    \A S \in StructureShapes :
      /\ Cardinality(ModelsOf(S)) <= 1
      /\ \A k \in ModelsOf(S) : \A m \in Range(result) : \A p \in RefsTo(m, S) :
           p.type = result[k].name

\* ------------------------------------------------------------------ C4
\* A record with exactly one member, whose shape is of simple type.
Collapsible(S) ==
  /\ Cls(S) = "StructureShape"
  /\ Len(Members(S)) = 1
  /\ simple_shape(Members(S)[1].shape) # None

\* The fields of the models compiled so far by the calls that have returned to
\* all_models, as pairs of model and property.
Fields == UNION {{<<m, p>> : p \in Range(m.props)} : m \in Range(result)}

Unsupported(s) ==
  /\ simple_shape(s) = None
  /\ Cls(s) \notin {"ListShape", "MapShape", "StructureShape"}

\* C6: a run that meets an unsupported shape, as a record member, a list
\* element or a map value, raises and returns no collection: a returned
\* collection holds no model of a shape with such a member.
C6_UnsupportedShapeAborts ==
  Returned =>
    \A m \in Range(result) : \A x \in Range(Members(m.shape)) :
      to_snake(x.name) \notin ignore_props =>
        /\ ~Unsupported(x.shape)
        /\ ~Unsupported(TargetShape(x.shape))

\* ------------------------------------------------------------------ C7
RECURSIVE Closure(_)
Closure(R) ==
  LET R2 == R \cup UNION {{<<a[1], b[2]>> : b \in {c \in R : c[1] = a[2]}} : a \in R}
  IN  IF R2 = R THEN R ELSE Closure(R2)

\* A model-valued field that is neither an array nor a map.
IsPlain(p) == p.is_complex /\ ~p.is_array

\* Model name to model name, along the plain fields of the returned models.
NameEdges == {<<mp[1].name, mp[2].type>> : mp \in {x \in Fields : IsPlain(x[2])}}

\* The members of record S that are records themselves and are not skipped,
\* not of simple type and not collapsed.
PlainMembers(S) ==
  {x \in Range(Members(S)) :
     /\ to_snake(x.name) \notin ignore_props
     /\ simple_shape(x.shape) = None
     /\ Cls(x.shape) = "StructureShape"
     /\ ~Collapsible(x.shape)}

\* Shape to shape, along those members.
SchemaPlainEdges ==
  UNION {{<<S, x.shape>> : x \in PlainMembers(S)} : S \in StructureShapes}

\* C7 as stated: no returned model reaches itself along plain fields only.
C7_NoPlainCycle ==
  Returned => \A m \in Range(result) : <<m.name, m.name>> \notin Closure(NameEdges)

\* C7 as amended: the plain fields of a model are exactly the plain record
\* members of its shape, so a returned model reaches itself along plain fields
\* only if its shape contains itself through plain record members; such a shape
\* is compiled all the same.
C7_PlainCycleOnlyFromSchema ==
  Returned =>
    \A m \in Range(result) :
      /\ {p.from_name : p \in {q \in Range(m.props) : IsPlain(q)}}
           = {<<x.name>> : x \in PlainMembers(m.shape)}
      /\ <<m.name, m.name>> \in Closure(NameEdges) =>
           <<m.shape, m.shape>> \in Closure(SchemaPlainEdges)

\* A record that holds itself as a plain member was compiled: its model refers
\* to itself.
C7_Witness ==
  /\ Returned
  /\ \E m \in Range(result) :
       /\ <<m.shape, m.shape>> \in SchemaPlainEdges
       /\ <<m.name, m.name>> \in NameEdges

\* ------------------------------------------------------------------ C5
\* Every type name a call of a run can be entered under.
NameUniverse ==
  {type_name(pf, s) :
     pf \in {ep.prefix : ep \in Endpoints} \cup {OrEmpty(ep.prefix) : ep \in Endpoints},
     s \in ShapeNames}

Unvisited == Cardinality(NameUniverse \ visited)

\* The length of the longest member list of the schema.
MaxRecLen ==
  CHOOSE n \in {Len(Members(S)) : S \in StructureShapes} :
    \A S \in StructureShapes : Len(Members(S)) <= n

\* The steps call k of the stack still takes by itself: one before the visited
\* check; inside the loop three per member left (the step, or a call and its
\* return) and one for the final append; a call that waits for a callee has
\* taken two of the three of its current member.
FrameWeight(k) ==
  LET f == stack[k]
  IN  IF f.pc = "enter" THEN 1
      ELSE (3 * ((Len(Members(f.shape)) + 1) - f.i) + 1) - (IF k < Len(stack) THEN 2 ELSE 0)

RECURSIVE StackWeight(_)
StackWeight(k) == IF k = 0 THEN 0 ELSE FrameWeight(k) + StackWeight(k - 1)

\* A bound on the steps the run still takes: it pays for a passed visited
\* check with the type name that leaves Unvisited.
Variant ==
  (IF pc \in {"done", "aborted"} THEN 0 ELSE 1)
  + 2 * (MaxRoots - Len(taken))
  + (3 * MaxRecLen + 3) * Unvisited
  + StackWeight(Len(stack))

\* The member the innermost call is at takes a recursive call.
NeedsCall ==
  /\ AtComplexMember
  /\ LET s == CurMember(Top).shape
     IN  \/ /\ Cls(s) = "ListShape"
            /\ simple_shape(ListMember(s)) = None
            /\ complex_simple_shape(ListMember(s)) = None
         \/ Cls(s) = "MapShape" /\ simple_shape(MapKey(s)) # None
         \/ Cls(s) = "StructureShape" /\ complex_simple_shape(s) = None

\* all_models has returned or raised, or the run can take a step: all_models
\* is between two endpoints, or the innermost call is before its visited
\* check, past its last member, or at a member whose branch can be taken.
NotStuck ==
  \/ pc \in {"done", "aborted", "loop"}
  \/ pc = "call" /\ Top.pc = "enter"
  \/ pc = "call" /\ Top.pc = "members" /\ Top.i > Len(Members(Top.shape))
  \/ InLoop /\ (NeedsCall => Len(stack) < MaxDepth)

\* No type name passed the visited check twice.
NoRepeatedPass == \A i, j \in DOMAIN passes : i # j => passes[i] # passes[j]

\* C5: a run terminates: it is never stuck before all_models has returned or
\* raised, no type name passes the visited check twice, and every step lowers
\* Variant, a natural number, because a call that passes the visited check
\* takes its type name out of Unvisited for good.
C5_Terminates ==
  /\ [](NotStuck /\ NoRepeatedPass /\ Variant \in Nat)
  /\ [][Variant' < Variant]_vars

\* Widget and Part refer to each other through lists, both were compiled and
\* all_models returned.
C5_Witness ==
  /\ Returned
  /\ \E m \in Range(result) :
       m.shape = "Widget" /\ \E p \in Range(m.props) : p.from_name = <<"Parts">>
  /\ \E m \in Range(result) :
       m.shape = "Part" /\ \E p \in Range(m.props) : p.from_name = <<"Widgets">>

\* ------------------------------------------------- to_class: the mapping
\* ",".join(f'"{p}"' for p in from_p)
RECURSIVE JoinPath(_)
JoinPath(path) ==
  IF Len(path) = 1 THEN "\"" \o path[1] \o "\""
  ELSE "\"" \o path[1] \o "\"," \o JoinPath(Tail(path))

\* AwsProperty.mapping, as the pair of the key and the expression it prints.
PropMapping(p) ==
  IF p.extractor # None
  THEN [key |-> p.name, value |-> p.extractor]
  ELSE [key |-> p.name,
        value |-> "S(" \o JoinPath(p.from_name) \o
                  (CASE p.is_array /\ p.is_complex ->
                          ", default=[]) >> ForallBend(" \o p.type \o ".mapping)"
                     [] p.is_array /\ ~p.is_complex -> ", default=[])"
                     [] ~p.is_array /\ p.is_complex -> ") >> Bend(" \o p.type \o ".mapping)"
                     [] OTHER -> ")")]

\* to_class: base_mapping, in the order of the dict.
base_mapping ==
  <<[key |-> "id", value |-> "S(\"id\")"],
    [key |-> "tags", value |-> "S(\"Tags\", default=[]) >> TagsToDict()"],
    [key |-> "name", value |-> "S(\"Tags\", default=[]) >> TagsValue(\"Name\")"],
    [key |-> "ctime", value |-> "K(None)"],
    [key |-> "mtime", value |-> "K(None)"],
    [key |-> "atime", value |-> "K(None)"]>>

\* ClassMapping without the test of aggregate_root.
Mut_ClassMapping(m) ==
  base_mapping \o [k \in 1..Len(m.props) |-> PropMapping(m.props[k])]

\* to_class: the entries of the mapping of the class, in the order they are printed.
ClassMapping(m) ==
  (IF m.aggregate_root THEN base_mapping ELSE <<>>)
    \o [k \in 1..Len(m.props) |-> PropMapping(m.props[k])]

Keys(mp) == [k \in 1..Len(mp) |-> mp[k].key]

\* ------------------------------------------------------------------ C8
\* C8 as stated: a root model carries exactly five fixed entries (id, tags,
\* name, ctime, mtime) ahead of the entries of its fields, and a model that is
\* no root carries none.
C8_FiveFixedFields ==
  \A m \in Range(result) :
    LET mp == ClassMapping(m)
    IN  IF m.aggregate_root
        THEN /\ Len(mp) = 5 + Len(m.props)
             /\ SubSeq(Keys(mp), 1, 5) = <<"id", "tags", "name", "ctime", "mtime">>
        ELSE Len(mp) = Len(m.props)

\* C8 as amended: in a returned collection the mapping of a root model starts
\* with six fixed entries,
\* id, tags, name and the three K(None) placeholders ctime, mtime and atime, in
\* that order, followed by one entry per field in field order; the mapping of a
\* model that is no root holds the entries of its fields only.
C8_SixFixedEntries ==
  Returned =>
    \A m \in Range(result) :
      LET mp == ClassMapping(m)
          n  == IF m.aggregate_root THEN 6 ELSE 0
      IN  /\ Len(mp) = n + Len(m.props)
          /\ SubSeq(Keys(mp), 1, n) =
               (IF m.aggregate_root
                THEN <<"id", "tags", "name", "ctime", "mtime", "atime">> ELSE <<>>)
          /\ m.aggregate_root => \A k \in 4..6 : mp[k].value = "K(None)"
          /\ \A k \in 1..Len(m.props) : mp[n + k] = PropMapping(m.props[k])

\* The returned collection holds a root model and a model that is no root, both
\* with fields.
C8_Witness ==
  /\ Returned
  /\ \E m \in Range(result) : m.aggregate_root /\ Len(m.props) > 0
  /\ \E m \in Range(result) : ~m.aggregate_root /\ Len(m.props) > 0

\* ------------------------------------------------------------------ C9
\* The end-to-end scenario: Widget has the members Id, Size and Owner, and the
\* models table holds the one endpoint (list-widgets, Widgets, Widget, prefix
\* Demo); all_models has returned.
WidgetEndpoint ==
  AwsResotoModel("list-widgets", "Widgets", "Widget", "Demo", None, None, None)

Scenario ==
  /\ Returned
  /\ members = BaseMembers
  /\ taken = <<WidgetEndpoint>>

\* The fields id (from Id), size (from Size) and a collapsed third field of the
\* given name (from Owner, Name), all scalar.
ScenarioFields(props, third) ==
  /\ Len(props) = 3
  /\ [k \in 1..3 |-> props[k].name] = <<"id", "size", third>>
  /\ [k \in 1..3 |-> props[k].from_name] = <<<<"Id">>, <<"Size">>, <<"Owner", "Name">>>>
  /\ [k \in 1..3 |-> props[k].type] = <<"str", "int", "str">>
  /\ \A k \in 1..3 : ~props[k].is_array /\ ~props[k].is_complex

\* C9 as stated: the scenario yields exactly one model, the root model
\* DemoWidget with the fields id, size and owner_name.
C9_ScenarioAsStated ==
  Scenario =>
    /\ Len(result) = 1
    /\ result[1].name = "DemoWidget"
    /\ result[1].aggregate_root
    /\ ScenarioFields(result[1].props, "owner_name")

\* C9 as amended: the scenario yields exactly one model, the root model
\* AwsDemoWidget with the api_info of the endpoint and the fields id, size and
\* owner (the collapsed field keeps the name of the outer member); its mapping
\* is the six fixed entries and then id, size and owner.
C9_ScenarioAsCompiled ==
  Scenario =>
    /\ Len(result) = 1
    /\ result[1].name = "AwsDemoWidget"
    /\ result[1].aggregate_root
    /\ result[1].base_class = None
    /\ result[1].api_info = <<"demo", "list-widgets", "Widgets">>
    /\ ScenarioFields(result[1].props, "owner")
    /\ SubSeq(ClassMapping(result[1]), 7, 9) =
         <<[key |-> "id", value |-> "S(\"Id\")"],
           [key |-> "size", value |-> "S(\"Size\")"],
           [key |-> "owner", value |-> "S(\"Owner\",\"Name\")"]>>

\* The scenario has run to its end.
C9_Witness == Scenario /\ Len(result) = 1

\* ----------------------------------------------------------------- C10
\* The model names the field p refers to: its type when it is model-valued,
\* the value type of a map field.
RefNames(m, p) ==
  IF p.is_complex THEN {p.type}
  ELSE IF IsMapField(m, p)
       THEN {n \in ModelNames :
               p.type = DictType(simple_shape(MapKey(MemberOf(m, p).shape)), n)}
       ELSE {}

\* The shapes a shape refers to: a record to the shapes of its members, a list
\* to its element, a map to its value.
Successors(s) ==
  CASE Cls(s) = "StructureShape" -> {x.shape : x \in Range(Members(s))}
    [] Cls(s) = "ListShape" -> {ListMember(s)}
    [] Cls(s) = "MapShape" -> {MapValue(s)}
    [] OTHER -> {}

RECURSIVE ReachableFrom(_)
ReachableFrom(seen) ==
  LET more == seen \cup UNION {Successors(s) : s \in seen}
  IN  IF more = seen THEN seen ELSE ReachableFrom(more)

\* Shape b is a (or is reachable from a) in the schema.
Reaches(a, b) == b \in ReachableFrom({a})

\* C10 as stated: every model a field of model M refers to stands before M in
\* the returned collection.
C10_NestedFirst ==
  Returned =>
    \A i, j \in DOMAIN result : \A p \in Range(result[i].props) :
      result[j].name \in RefNames(result[i], p) => j < i

\* C10 as amended: for every model M of the returned collection and every
\* model name a field of M refers to, a model of that name stands before M if
\* there is one at all, unless the field closes a cycle of the schema (the
\* shape of M is the shape referred to or reachable from it).
C10_NestedFirstUnlessCycle ==
  Returned =>
    \A i \in DOMAIN result : \A p \in Range(result[i].props) :
      \A n \in RefNames(result[i], p) \cap ModelNames :
        \/ \E j \in 1..(i - 1) : result[j].name = n
        \/ Reaches(TargetShape(MemberOf(result[i], p).shape), result[i].shape)

\* Widget refers to Spec and to Owner, neither of which reaches Widget, and
\* their models stand before the model of Widget.
C10_Witness ==
  /\ Returned
  /\ \E i \in DOMAIN result :
       /\ result[i].shape = "Widget"
       /\ \E p \in Range(result[i].props) :
            p.from_name = <<"Spec">> /\ RefNames(result[i], p) \cap ModelNames # {}
       /\ \E p \in Range(result[i].props) :
            p.from_name = <<"OwnerIndex">> /\ RefNames(result[i], p) \cap ModelNames # {}
       /\ ~Reaches("Spec", "Widget")

\* ----------------------------------------------------------------- C11
IsRootModel(m) == m.aggregate_root

\* The api_info all_models hands to the call for endpoint ep.
ApiInfoOf(ep) == <<ep.service, ep.api_action, ep.result_property>>

\* C11: a returned collection holds exactly one root model per endpoint taken
\* from the table, in the order of the endpoints and with the api_info of its
\* endpoint, and every model compiled by a recursive call is no root and has
\* no api_info.
C11_OneRootModelPerEndpoint ==
  Returned =>
    LET roots == SelectSeq(result, IsRootModel)
    IN  /\ Len(roots) = Len(taken)
        /\ \A k \in DOMAIN roots :
             k <= Len(taken) => roots[k].api_info = ApiInfoOf(taken[k])
        /\ \A m \in Range(result) :
             m.via # "root" => ~m.aggregate_root /\ m.api_info = NoApi

====
